---- MODULE Spec2Model ----
(***************************************************************************)
(* fuel-ts-hasher: the recursive value-to-bytes encoder and the            *)
(* incremental Hasher built on it.                                         *)
(*                                                                         *)
(* Two modules of the repository are modelled:                             *)
(*   - the context-taking ("strict") module: encodeInputAsBytes,           *)
(*     encodeMultipleInputs, Hasher(enumContext);                          *)
(*   - the context-free ("best-effort") module src/index.ts:               *)
(*     encodeInputAsBytes, getEnumDiscriminant, encodeMultipleInputs,      *)
(*     Hasher().  Its definitions carry the suffix _index.                 *)
(*                                                                         *)
(* JavaScript values are records of one shape; strings are sequences of    *)
(* UTF-16 code units; byte arrays are sequences of 0..255.                 *)
(***************************************************************************)
EXTENDS Integers, Sequences, FiniteSets

VARIABLES
    loaded,   \* which module the program imported: "strict" or "index"
    hashers,  \* Hasher instances: id -> [live, enumContext, buffer, log, since]
    heap,     \* the JavaScript arrays held in Hasher.buffer: ref -> sequence of chunks
    ret       \* the last call made and what it returned or threw

vars == <<loaded, hashers, heap, ret>>

----------------------------------------------------------------------------
(* Bounds of the model.                                                    *)

MaxArrayLen == 2      \* longest generated array
MaxFields == 2        \* most fields of a generated object
MaxTagLen == 3        \* longest generated variant name
LongVariants == 257   \* length of the long variant list of CtxLong
MaxHashers == 2       \* Hasher instances alive at once
MaxChunks == 2        \* chunks pushed to one buffer

----------------------------------------------------------------------------
(* JavaScript values.                                                      *)
(*   k     : "undefined" "null" "boolean" "number" "string" "function"     *)
(*           "array" "object" "bn"                                         *)
(*   n     : the number (number, bn), 1/0 (boolean)                        *)
(*   s     : the code units (string)                                       *)
(*   keys  : own keys in insertion order (object)                          *)
(*   items : the elements (array), the field values parallel to keys       *)
(*           (object)                                                      *)
(* Numbers of the model are non-negative integers below 2^31.  Objects     *)
(* of the model do not define toString themselves.                         *)

Val(k, n, s, keys, items) == [k |-> k, n |-> n, s |-> s, keys |-> keys, items |-> items]

Undefined == Val("undefined", 0, <<>>, <<>>, <<>>)
Null == Val("null", 0, <<>>, <<>>, <<>>)
Bool(b) == Val("boolean", IF b THEN 1 ELSE 0, <<>>, <<>>, <<>>)
Num(n) == Val("number", n, <<>>, <<>>, <<>>)
Str(s) == Val("string", 0, s, <<>>, <<>>)
Fn == Val("function", 0, <<>>, <<>>, <<>>)
BN(n) == Val("bn", n, <<>>, <<>>, <<>>)
Arr(items) == Val("array", 0, <<>>, <<>>, items)
Obj(keys, items) == Val("object", 0, <<>>, keys, items)

(* String literals, as code units. *)
sActivate == <<65, 99, 116, 105, 118, 97, 116, 101>>
sSendFleet == <<83, 101, 110, 100, 70, 108, 101, 101, 116>>
sEventual == <<69, 118, 101, 110, 116, 117, 97, 108>>
sKnown == <<75, 110, 111, 119, 110>>
sAddress == <<65, 100, 100, 114, 101, 115, 115>>
sContractId == <<67, 111, 110, 116, 114, 97, 99, 116, 73, 100>>
sElements == <<101, 108, 101, 109, 101, 110, 116, 115>>
sObjectObject == <<91, 111, 98, 106, 101, 99, 116, 32, 79, 98, 106, 101, 99, 116, 93>>
sTrue == <<116, 114, 117, 101>>
sFalse == <<102, 97, 108, 115, 101>>
sFunctionSource == <<40, 41, 61, 62, 48>>
sMaxIndex == <<52, 50, 57, 52, 57, 54, 55, 50, 57, 52>>

----------------------------------------------------------------------------
(* Sequences and bytes.                                                    *)

RECURSIVE Flatten(_)
Flatten(ss) == IF ss = <<>> THEN <<>> ELSE Head(ss) \o Flatten(Tail(ss))

IsDigit(c) == c >= 48 /\ c <= 57

(* /^\d+$/.test(str) *)
DigitsOnly(str) == Len(str) >= 1 /\ \A i \in 1..Len(str) : IsDigit(str[i])

(* /^[A-Z]/.test(key) *)
StartsUpper(key) == Len(key) >= 1 /\ key[1] >= 65 /\ key[1] <= 90

(* Number.prototype.toString / BN.toString for a non-negative integer. *)
RECURSIVE NatToString(_)
NatToString(n) ==
    IF n < 10 THEN <<48 + n>> ELSE NatToString(n \div 10) \o <<48 + (n % 10)>>

(* BigInt(str) for a string of decimal digits. *)
RECURSIVE BigIntOf(_)
BigIntOf(str) ==
    IF str = <<>> THEN 0
    ELSE BigIntOf(SubSeq(str, 1, Len(str) - 1)) * 10 + (str[Len(str)] - 48)

(* DataView.setBigUint64(0, n, false): 8 bytes, most significant first. *)
RECURSIVE BigEndian(_, _)
BigEndian(n, width) ==
    IF width = 0 THEN <<>> ELSE BigEndian(n \div 256, width - 1) \o <<n % 256>>

U64BE(n) == BigEndian(n, 8)

(* new Uint8Array([x]) stores x modulo 2^8. *)
ToUint8(x) == x % 256

(* parseInt(two, 16): the longest prefix of hex digits; NaN when there is  *)
(* none, which a Uint8Array stores as 0.                                   *)
HexDigit(c) ==
    IF IsDigit(c) THEN c - 48
    ELSE IF c >= 97 /\ c <= 102 THEN c - 87
    ELSE IF c >= 65 /\ c <= 70 THEN c - 55
    ELSE -1

ParseHexPair(c1, c2) ==
    IF HexDigit(c1) < 0 THEN 0
    ELSE IF HexDigit(c2) < 0 THEN HexDigit(c1)
    ELSE 16 * HexDigit(c1) + HexDigit(c2)

IsB256(str) == Len(str) = 66 /\ str[1] = 48 /\ str[2] = 120

B256Bytes(str) == [i \in 1..32 |-> ToUint8(ParseHexPair(str[2 * i + 1], str[2 * i + 2]))]

(* new TextEncoder().encode(str): UTF-8 of the UTF-16 code units; a        *)
(* surrogate pair is one code point, a lone surrogate becomes U+FFFD.      *)
IsHighSurrogate(c) == c >= 55296 /\ c <= 56319
IsLowSurrogate(c) == c >= 56320 /\ c <= 57343

Utf8OfCodePoint(cp) ==
    IF cp < 128 THEN <<cp>>
    ELSE IF cp < 2048 THEN <<192 + (cp \div 64), 128 + (cp % 64)>>
    ELSE IF cp < 65536 THEN
        <<224 + (cp \div 4096), 128 + ((cp \div 64) % 64), 128 + (cp % 64)>>
    ELSE <<240 + (cp \div 262144), 128 + ((cp \div 4096) % 64),
           128 + ((cp \div 64) % 64), 128 + (cp % 64)>>

RECURSIVE Utf8(_)
Utf8(str) ==
    IF str = <<>> THEN <<>>
    ELSE IF IsHighSurrogate(str[1]) /\ Len(str) >= 2 /\ IsLowSurrogate(str[2]) THEN
        Utf8OfCodePoint(65536 + (str[1] - 55296) * 1024 + (str[2] - 56320))
            \o Utf8(SubSeq(str, 3, Len(str)))
    ELSE IF IsHighSurrogate(str[1]) \/ IsLowSurrogate(str[1]) THEN
        <<239, 191, 189>> \o Utf8(Tail(str))
    ELSE Utf8OfCodePoint(str[1]) \o Utf8(Tail(str))

----------------------------------------------------------------------------
(* Objects: own-key enumeration order (Object.keys, Object.entries,        *)
(* Object.values): the keys that are array indices ascending by value,     *)
(* then the other keys in insertion order.                                 *)

RECURSIVE LexLess(_, _)
LexLess(a, b) ==
    IF a = <<>> \/ b = <<>> THEN a = <<>> /\ b # <<>>
    ELSE IF a[1] # b[1] THEN a[1] < b[1]
    ELSE LexLess(Tail(a), Tail(b))

(* A canonical numeric string of an integer in 0 .. 2^32 - 2. *)
IsArrayIndex(key) ==
    /\ DigitsOnly(key)
    /\ (Len(key) = 1 \/ key[1] # 48)
    /\ (Len(key) < 10 \/ (Len(key) = 10 /\ ~LexLess(sMaxIndex, key)))

IndexLess(a, b) == Len(a) < Len(b) \/ (Len(a) = Len(b) /\ LexLess(a, b))

RECURSIVE InsertIndex(_, _)
InsertIndex(key, sorted) ==
    IF sorted = <<>> THEN <<key>>
    ELSE IF IndexLess(key, Head(sorted)) THEN <<key>> \o sorted
    ELSE <<Head(sorted)>> \o InsertIndex(key, Tail(sorted))

RECURSIVE SortIndices(_)
SortIndices(ks) ==
    IF ks = <<>> THEN <<>> ELSE InsertIndex(Head(ks), SortIndices(Tail(ks)))

IsNotArrayIndex(key) == ~IsArrayIndex(key)

ObjectKeys(o) ==
    SortIndices(SelectSeq(o.keys, IsArrayIndex)) \o SelectSeq(o.keys, IsNotArrayIndex)

HasKey(o, key) == \E i \in 1..Len(o.keys) : o.keys[i] = key

(* o[key], for a key the object has. *)
Get(o, key) == o.items[CHOOSE i \in 1..Len(o.keys) : o.keys[i] = key]

ObjectValues(o) == [i \in 1..Len(o.keys) |-> Get(o, ObjectKeys(o)[i])]

(* typeof v === "object" && v !== null *)
IsObject(v) == v.k \in {"array", "object", "bn"}

(* String(v) / v.toString(): Array.prototype.toString joins the elements'  *)
(* strings with ",", null and undefined giving the empty string.           *)
RECURSIVE StringOf(_)
RECURSIVE Join(_)
Join(items) ==
    IF items = <<>> THEN <<>>
    ELSE LET first == IF Head(items).k \in {"null", "undefined"} THEN <<>>
                      ELSE StringOf(Head(items))
         IN IF Len(items) = 1 THEN first ELSE first \o <<44>> \o Join(Tail(items))

StringOf(v) ==
    IF v.k = "string" THEN v.s
    ELSE IF v.k \in {"number", "bn"} THEN NatToString(v.n)
    ELSE IF v.k = "boolean" THEN (IF v.n = 1 THEN sTrue ELSE sFalse)
    ELSE IF v.k = "array" THEN Join(v.items)
    ELSE IF v.k = "function" THEN sFunctionSource
    ELSE sObjectObject

----------------------------------------------------------------------------
(* What a call returns or throws.                                          *)

Ok(bytes) == [ok |-> TRUE, bytes |-> bytes, err |-> "", name |-> <<>>]

(* throw new Error(...): err is the kind of message, name the variant      *)
(* name the message quotes.                                                *)
Throw(err, name) == [ok |-> FALSE, bytes |-> <<>>, err |-> err, name |-> name]

(* The results of an in-order map: the first throw propagates; otherwise   *)
(* the chunks are copied one after the other into one array.               *)
FirstThrow(rs) == rs[CHOOSE i \in 1..Len(rs) : ~rs[i].ok /\ \A j \in 1..(i - 1) : rs[j].ok]

Combine(rs) ==
    IF \E i \in 1..Len(rs) : ~rs[i].ok THEN FirstThrow(rs)
    ELSE Ok(Flatten([i \in 1..Len(rs) |-> rs[i].bytes]))

----------------------------------------------------------------------------
(* The context-taking module.                                              *)

(* variants.includes(variantName) and variants.indexOf(variantName) *)
Includes(variants, variantName) ==
    \E i \in 1..Len(variants.items) :
        variants.items[i].k = "string" /\ variants.items[i].s = variantName

IndexOf(variants, variantName) ==
    (CHOOSE i \in 1..Len(variants.items) :
        /\ variants.items[i].k = "string" /\ variants.items[i].s = variantName
        /\ \A j \in 1..(i - 1) :
            ~(variants.items[j].k = "string" /\ variants.items[j].s = variantName)) - 1

(* The loop over Object.entries(enumContext): the entries holding the      *)
(* variant, in enumeration order.                                          *)
EntriesWith(enumContext, variantName) ==
    LET holds(enumName) == Includes(Get(enumContext, enumName), variantName)
    IN SelectSeq(ObjectKeys(enumContext), holds)

enumFound(enumContext, variantName) ==
    /\ enumContext.k # "undefined"
    /\ EntriesWith(enumContext, variantName) # <<>>

discriminantOf(enumContext, variantName) ==
    IndexOf(Get(enumContext, Head(EntriesWith(enumContext, variantName))), variantName)

discriminantByte(discriminant) == <<ToUint8(discriminant)>>

(* Array.isArray(input.elements) *)
HasElementsArray(input) ==
    input.k = "object" /\ HasKey(input, sElements) /\ Get(input, sElements).k = "array"

enumKeys(keys) == SelectSeq(keys, StartsUpper)

BNBranch(input) == IsObject(input) /\ DigitsOnly(StringOf(input))

RECURSIVE encodeInputAsBytes(_, _)
encodeInputAsBytes(input, enumContext) ==
    IF input.k \in {"null", "undefined"} THEN Ok(<<>>)
    ELSE IF input.k = "string" THEN
        (IF IsB256(input.s) THEN Ok(B256Bytes(input.s)) ELSE Ok(Utf8(input.s)))
    ELSE IF input.k = "number" THEN Ok(U64BE(BigIntOf(StringOf(input))))
    ELSE IF input.k = "boolean" THEN Ok(<<IF input.n = 1 THEN 1 ELSE 0>>)
    ELSE IF BNBranch(input) THEN Ok(U64BE(BigIntOf(StringOf(input))))
    ELSE IF input.k = "array" THEN
        Combine([i \in 1..Len(input.items) |->
                    encodeInputAsBytes(input.items[i], enumContext)])
    ELSE IF HasElementsArray(input) THEN
        encodeInputAsBytes(Get(input, sElements), enumContext)
    ELSE IF IsObject(input) THEN
        LET keys == ObjectKeys(input)
        IN IF Len(enumKeys(keys)) = 1 /\ Len(keys) = 1 THEN
               LET variantName == enumKeys(keys)[1]
                   variantValue == Get(input, variantName)
               IN IF ~enumFound(enumContext, variantName)
                  THEN Throw("EnumVariantNotFound", variantName)
                  ELSE Combine(<<Ok(discriminantByte(
                                       discriminantOf(enumContext, variantName))),
                                 encodeInputAsBytes(variantValue, enumContext)>>)
           ELSE Combine([i \in 1..Len(keys) |->
                            encodeInputAsBytes(Get(input, keys[i]), enumContext)])
    ELSE Throw("CannotEncode", <<>>)

(* The last argument is taken for the enum context when it is a non-array  *)
(* object all of whose values are arrays of strings.  (The values of a BN  *)
(* are not arrays of strings.)                                             *)
IsStringArray(v) ==
    v.k = "array" /\ \A i \in 1..Len(v.items) : v.items[i].k = "string"

LooksLikeEnumContext(last) ==
    /\ last.k = "object"
    /\ \A i \in 1..Len(last.keys) : IsStringArray(ObjectValues(last)[i])

encodeMultipleInputs(args) ==
    LET takesLast == Len(args) > 0 /\ LooksLikeEnumContext(args[Len(args)])
        enumContext == IF takesLast THEN args[Len(args)] ELSE Undefined
        actualArgs == IF takesLast THEN SubSeq(args, 1, Len(args) - 1) ELSE args
    IN Combine([i \in 1..Len(actualArgs) |->
                   encodeInputAsBytes(actualArgs[i], enumContext)])

----------------------------------------------------------------------------
(* The context-free module, src/index.ts.                                  *)

(* 32-bit integers.  An int32 is split into two 16-bit limbs so that no    *)
(* intermediate value leaves the range of TLC's integers.                  *)
Hi16(x) == (x \div 65536) % 65536
Lo16(x) == x % 65536
FromLimbs(hi, lo) == IF hi >= 32768 THEN (hi - 65536) * 65536 + lo ELSE hi * 65536 + lo

(* hash << 5 *)
Shl5(hash) ==
    LET lo == Lo16(hash) * 32
        hi == Hi16(hash) * 32 + (lo \div 65536)
    IN FromLimbs(hi % 65536, lo % 65536)

(* ToInt32(a - b + c), as "hash & hash" truncates the double a - b + c. *)
SubAddToInt32(a, b, c) ==
    LET lo == Lo16(a) - Lo16(b) + c
        hi == Hi16(a) - Hi16(b) + (lo \div 65536)
    IN FromLimbs(hi % 65536, lo % 65536)

(* Math.abs(x) % m for an int32 x; Math.abs(-2^31) is 2^31. *)
AbsMod(x, m) == IF x >= 0 THEN x % m ELSE (((-(x + 1)) % m) + 1) % m

RECURSIVE RollingHash(_, _)
RollingHash(hash, rest) ==
    IF rest = <<>> THEN hash
    ELSE RollingHash(SubAddToInt32(Shl5(hash), hash, Head(rest)), Tail(rest))

knownVariants ==
    <<<<sActivate, 0>>, <<sSendFleet, 1>>, <<sEventual, 0>>,
      <<sKnown, 1>>, <<sAddress, 0>>, <<sContractId, 1>>>>

(* The property names every object inherits from Object.prototype; the    *)
(* "in" operator finds them too, and the table then yields a function or   *)
(* an object, not a number.  None starts with an upper-case letter.        *)
sConstructor == <<99, 111, 110, 115, 116, 114, 117, 99, 116, 111, 114>>
sToString == <<116, 111, 83, 116, 114, 105, 110, 103>>
sValueOf == <<118, 97, 108, 117, 101, 79, 102>>
sHasOwnProperty == <<104, 97, 115, 79, 119, 110, 80, 114, 111, 112, 101, 114, 116, 121>>
sIsPrototypeOf == <<105, 115, 80, 114, 111, 116, 111, 116, 121, 112, 101, 79, 102>>
sPropertyIsEnumerable ==
    <<112, 114, 111, 112, 101, 114, 116, 121, 73, 115, 69, 110, 117, 109, 101, 114,
      97, 98, 108, 101>>
sToLocaleString == <<116, 111, 76, 111, 99, 97, 108, 101, 83, 116, 114, 105, 110, 103>>
sProto == <<95, 95, 112, 114, 111, 116, 111, 95, 95>>
sDefineGetter == <<95, 95, 100, 101, 102, 105, 110, 101, 71, 101, 116, 116, 101, 114, 95, 95>>
sDefineSetter == <<95, 95, 100, 101, 102, 105, 110, 101, 83, 101, 116, 116, 101, 114, 95, 95>>
sLookupGetter == <<95, 95, 108, 111, 111, 107, 117, 112, 71, 101, 116, 116, 101, 114, 95, 95>>
sLookupSetter == <<95, 95, 108, 111, 111, 107, 117, 112, 83, 101, 116, 116, 101, 114, 95, 95>>

InheritedNames ==
    {sConstructor, sToString, sValueOf, sHasOwnProperty, sIsPrototypeOf,
     sPropertyIsEnumerable, sToLocaleString, sProto, sDefineGetter, sDefineSetter,
     sLookupGetter, sLookupSetter}

NotANumber == "function"

(* getEnumDiscriminant as it would be without Math.abs: the remainder of a *)
(* negative hash is negative.                                              *)
getEnumDiscriminant_noAbs(variantName) ==
    IF \E i \in 1..Len(knownVariants) : knownVariants[i][1] = variantName
    THEN knownVariants[CHOOSE i \in 1..Len(knownVariants) :
                          knownVariants[i][1] = variantName][2]
    ELSE IF variantName \in InheritedNames THEN NotANumber
    ELSE LET hash == RollingHash(0, variantName)
         IN IF hash >= 0 THEN hash % 256 ELSE -AbsMod(hash, 256)

getEnumDiscriminant(variantName) ==
    IF \E i \in 1..Len(knownVariants) : knownVariants[i][1] = variantName
    THEN knownVariants[CHOOSE i \in 1..Len(knownVariants) :
                          knownVariants[i][1] = variantName][2]
    ELSE IF variantName \in InheritedNames THEN NotANumber
    ELSE AbsMod(RollingHash(0, variantName), 256)

RECURSIVE encodeInputAsBytes_index(_)
encodeInputAsBytes_index(input) ==
    IF input.k \in {"null", "undefined"} THEN Ok(<<>>)
    ELSE IF input.k = "string" THEN
        (IF IsB256(input.s) THEN Ok(B256Bytes(input.s)) ELSE Ok(Utf8(input.s)))
    ELSE IF input.k = "number" THEN Ok(U64BE(BigIntOf(StringOf(input))))
    ELSE IF input.k = "boolean" THEN Ok(<<IF input.n = 1 THEN 1 ELSE 0>>)
    ELSE IF BNBranch(input) THEN Ok(U64BE(BigIntOf(StringOf(input))))
    ELSE IF input.k = "array" THEN
        Combine([i \in 1..Len(input.items) |-> encodeInputAsBytes_index(input.items[i])])
    ELSE IF HasElementsArray(input) THEN
        encodeInputAsBytes_index(Get(input, sElements))
    ELSE IF IsObject(input) THEN
        LET keys == ObjectKeys(input)
        IN IF Len(enumKeys(keys)) = 1 /\ Len(keys) = 1 THEN
               LET variantName == enumKeys(keys)[1]
                   variantValue == Get(input, variantName)
               IN Combine(<<Ok(discriminantByte(getEnumDiscriminant(variantName))),
                            encodeInputAsBytes_index(variantValue)>>)
           ELSE Combine([i \in 1..Len(keys) |->
                            encodeInputAsBytes_index(Get(input, keys[i]))])
    ELSE Throw("CannotEncode", <<>>)

encodeMultipleInputs_index(args) ==
    Combine([i \in 1..Len(args) |-> encodeInputAsBytes_index(args[i])])

----------------------------------------------------------------------------
(* The values the calls are made with.                                     *)

SeqsUpTo(S, n) == UNION {[1..m -> S] : m \in 0..n}

Distinct(ks) == \A i, j \in 1..Len(ks) : i # j => ks[i] # ks[j]

sA == <<97>>
sB == <<98>>
sX == <<120>>
sHi == <<104, 105>>
sFive == <<53>>
sTwo == <<50>>
sTen == <<49, 48>>
sZed == <<90, 101, 100>>
sKind == <<75, 105, 110, 100>>
sBig == <<66, 105, 103>>
sMinHash == <<76, 116, 100, 109, 100, 116, 97>>
sNegHash == <<87, 105, 116, 104, 100, 114, 97, 119>>
sHex == [i \in 1..66 |-> IF i = 1 THEN 48 ELSE IF i = 2 THEN 120
                         ELSE IF i % 2 = 1 THEN 97 ELSE 98]

(* "V" followed by the decimal digits of i. *)
sV(i) == <<86>> \o NatToString(i)

Leaves ==
    {Null, Bool(TRUE), Num(5), Str(sFive), Str(sHi), Str(<<>>), BN(7), Fn}

Arrays == {Arr(items) : items \in SeqsUpTo(Leaves, MaxArrayLen)}

FieldKeys == {sA, sB, sTwo, sTen, sActivate, sElements}

FieldValues == {Num(1), Num(2), Str(sHi), Arr(<<Str(sFive)>>), Fn}

Objects ==
    {Obj(ks, vs) : <<ks, vs>> \in
        {kv \in SeqsUpTo(FieldKeys, MaxFields) \X SeqsUpTo(FieldValues, MaxFields) :
            Len(kv[1]) = Len(kv[2]) /\ Distinct(kv[1])}}

Nested ==
    {Str(sHex), Str(<<233, 55357, 56832, 56832>>),
     Arr(<<Arr(<<Num(5)>>)>>), Arr(<<Arr(<<Num(1), Num(2)>>), Arr(<<Str(sHi)>>)>>),
     Arr(<<Num(1), Arr(<<Fn>>)>>),
     Obj(<<sActivate>>, <<Obj(<<sA, sB>>, <<Num(1), Arr(<<Num(2), Num(3)>>)>>)>>),
     Obj(<<sSendFleet>>, <<Obj(<<sZed>>, <<Num(1)>>)>>),
     Obj(<<sZed>>, <<Num(1)>>),
     Obj(<<sA>>, <<Obj(<<sZed>>, <<Num(1)>>)>>),
     Obj(<<sV(0)>>, <<Num(5)>>), Obj(<<sV(255)>>, <<Num(5)>>),
     Obj(<<sV(LongVariants - 1)>>, <<Num(5)>>),
     Obj(<<sElements>>, <<Arr(<<Num(1), Str(sHi)>>)>>),
     Obj(<<sElements>>, <<Arr(<<Arr(<<Str(sFive)>>), Num(1)>>)>>)}

Values == Leaves \cup Arrays \cup Objects \cup Nested

CtxKind == Obj(<<sKind>>, <<Arr(<<Str(sActivate), Str(sSendFleet)>>)>>)

(* Entry "2" is inserted last and enumerated first. *)
CtxTwo ==
    Obj(<<sKind, sTwo>>,
        <<Arr(<<Str(sActivate), Str(sSendFleet)>>),
          Arr(<<Str(sZed), Str(sSendFleet), Str(sActivate)>>)>>)

CtxLong == Obj(<<sBig>>, <<Arr([i \in 1..LongVariants |-> Str(sV(i - 1))])>>)

Contexts == {Undefined, CtxKind, CtxTwo, CtxLong}

(* Variant names: the sole key of an object, starting with A-Z. *)
VariantNames ==
    {<<first>> \o rest : first \in {65, 90},
                         rest \in SeqsUpTo({97, 122, 65, 48}, MaxTagLen - 1)}
    \cup {knownVariants[i][1] : i \in 1..Len(knownVariants)}
    \cup {sZed, sMinHash, sNegHash, sV(LongVariants - 1)}

(* Arguments of encodeMultipleInputs and Hasher.update. *)
ObjNames == Obj(<<sA>>, <<Arr(<<Str(sX)>>)>>)
TaggedActivate == Obj(<<sActivate>>, <<Num(5)>>)

Unencodable == Obj(<<sA>>, <<Arr(<<Num(1), Obj(<<sZed>>, <<Fn>>)>>)>>)

Inputs == {TaggedActivate, Unencodable}

FreshInputs ==
    Inputs \cup {ObjNames, Num(5), Str(sHi), Obj(<<>>, <<>>), Arr(<<Str(sFive)>>),
                 Obj(<<sB, sA>>, <<Arr(<<Str(sHi)>>), Arr(<<>>)>>)}

HasherContexts == {Undefined, CtxKind}

----------------------------------------------------------------------------
(* The Hasher class.  A Hasher holds a reference to its buffer array; the  *)
(* arrays live in the heap.  log and since are history: the inputs the     *)
(* buffer holds the chunks of, and the call that made the buffer array     *)
(* ("new", "clone" or "reset").                                            *)

Ids == 1..MaxHashers
Refs == 1..MaxHashers

NoHasher ==
    [live |-> FALSE, enumContext |-> Undefined, buffer |-> 0, log |-> <<>>,
     since |-> "none"]

NoCall == [op |-> "none", h |-> 0, args |-> <<>>, res |-> Ok(<<>>), value |-> <<>>]

Call(op, h, args, res, value) ==
    [op |-> op, h |-> h, args |-> args, res |-> res, value |-> value]

Live(hs) == {h \in Ids : hs[h].live}

(* The arrays no live Hasher references are garbage. *)
Collect(hs, hp) ==
    [r \in Refs |-> IF \E h \in Live(hs) : hs[h].buffer = r THEN hp[r] ELSE <<>>]

FreeRef(hs, except) ==
    CHOOSE r \in Refs :
        /\ \A h \in Live(hs) \ {except} : hs[h].buffer # r
        /\ \A q \in 1..(r - 1) : \E h \in Live(hs) \ {except} : hs[h].buffer = q

(* The external hash primitive: a function of the bytes alone. *)
sha256(bytes) == [sha256 |-> bytes]

Encode(input, enumContext) ==
    IF loaded = "strict" THEN encodeInputAsBytes(input, enumContext)
    ELSE encodeInputAsBytes_index(input)

(* getBytes(): a new array holding the chunks in push order. *)
getBytes(buffer) == Flatten(buffer)

(* update(input) as it would be if the chunk were pushed before the       *)
(* encoder's failure is noticed.                                           *)
update_pushesOnFailure(buffer, res) == Append(buffer, res.bytes)

(* update(input): the buffer after the call that encoded input to res. *)
update(buffer, res) == IF res.ok THEN Append(buffer, res.bytes) ELSE buffer

(* finalize() as it would be if it drained the buffer. *)
finalize_drains(buffer) == <<>>

(* finalize() / digest(): the buffer after the call. *)
finalize(buffer) == buffer

(* reset() as it would be if it kept the first chunk. *)
reset_keepsFirst(buffer) == IF buffer = <<>> THEN <<>> ELSE <<Head(buffer)>>

(* reset(): the array this.buffer is set to. *)
reset(buffer) == <<>>

(* clone() as it would be if it assigned this.buffer without copying. *)
clone_shares(thisBuffer, newArray) == thisBuffer

(* clone(): the array newHasher.buffer refers to, a new one. *)
clone(thisBuffer, newArray) == newArray

Constructor(h, enumContext) ==
    /\ h \notin Live(hashers)
    /\ \A g \in 1..(h - 1) : g \in Live(hashers)
    /\ loaded = "index" => enumContext = Undefined
    /\ hashers' = [hashers EXCEPT ![h] =
                      [NoHasher EXCEPT !.live = TRUE, !.enumContext = enumContext,
                                       !.buffer = FreeRef(hashers, 0),
                                       !.since = "new"]]
    /\ heap' = Collect(hashers', heap)
    /\ ret' = Call("new", h, <<enumContext>>, Ok(<<>>), <<>>)
    /\ UNCHANGED loaded

Update(h, input) ==
    /\ h \in Live(hashers)
    /\ Len(heap[hashers[h].buffer]) < MaxChunks
    /\ LET res == Encode(input, hashers[h].enumContext)
       IN /\ heap' = [heap EXCEPT ![hashers[h].buffer] = update(@, res)]
          /\ hashers' = [hashers EXCEPT ![h].log =
                            IF res.ok THEN Append(@, input) ELSE @]
          /\ ret' = Call("update", h, <<input>>, res, <<>>)
    /\ UNCHANGED loaded

Finalize(h) ==
    /\ h \in Live(hashers)
    /\ LET combined == getBytes(heap[hashers[h].buffer])
       IN ret' = Call("finalize", h, <<>>, Ok(<<>>), sha256(combined))
    /\ heap' = [heap EXCEPT ![hashers[h].buffer] = finalize(@)]
    /\ UNCHANGED <<loaded, hashers>>

GetBytes(h) ==
    /\ h \in Live(hashers)
    /\ ret' = Call("getBytes", h, <<>>, Ok(getBytes(heap[hashers[h].buffer])), <<>>)
    /\ UNCHANGED <<loaded, hashers, heap>>

Reset(h) ==
    /\ h \in Live(hashers)
    /\ LET new == FreeRef(hashers, h)
           old == hashers[h].buffer
       IN /\ hashers' = [hashers EXCEPT ![h].buffer = new, ![h].log = <<>>,
                                        ![h].since = "reset"]
          /\ heap' = Collect(hashers', [heap EXCEPT ![new] = reset(heap[old])])
    /\ ret' = Call("reset", h, <<>>, Ok(<<>>), <<>>)
    /\ UNCHANGED loaded

Clone(h, g) ==
    /\ h \in Live(hashers)
    /\ g \notin Live(hashers)
    /\ \A q \in 1..(g - 1) : q \in Live(hashers)
    /\ LET ref == clone(hashers[h].buffer, FreeRef(hashers, 0))
       IN /\ hashers' = [hashers EXCEPT ![g] =
                            [hashers[h] EXCEPT !.buffer = ref, !.since = "clone"]]
          /\ heap' = [heap EXCEPT ![ref] = heap[hashers[h].buffer]]
    /\ ret' = Call("clone", h, <<>>, Ok(<<>>), g)
    /\ UNCHANGED loaded

(* encodeMultipleInputs(v1, ..., vn[, enumContext]) called with the inputs  *)
(* Hasher h has taken, followed by the enum context h was constructed      *)
(* with, when it was given one.                                            *)
EncodeMultiple(h) ==
    /\ h \in Live(hashers)
    /\ LET args == IF loaded = "strict" /\ hashers[h].enumContext # Undefined
                   THEN Append(hashers[h].log, hashers[h].enumContext)
                   ELSE hashers[h].log
           res == IF loaded = "strict" THEN encodeMultipleInputs(args)
                  ELSE encodeMultipleInputs_index(args)
       IN ret' = Call("encodeMultipleInputs", h, args, res, <<>>)
    /\ UNCHANGED <<loaded, hashers, heap>>

Init ==
    /\ loaded \in {"strict", "index"}
    /\ hashers = [h \in Ids |-> NoHasher]
    /\ heap = [r \in Refs |-> <<>>]
    /\ ret = NoCall

Next ==
    \/ \E h \in Ids, enumContext \in HasherContexts : Constructor(h, enumContext)
    \/ \E h \in Ids, input \in Inputs : Update(h, input)
    \/ \E h \in Ids : Finalize(h)
    \/ \E h \in Ids : GetBytes(h)
    \/ \E h \in Ids : Reset(h)
    \/ \E h, g \in Ids : Clone(h, g)

Spec == Init /\ [][Next]_vars

(* One Hasher, constructed and appended to, never reset or cloned, and     *)
(* encodeMultipleInputs called with what it took.                          *)
NextFresh ==
    \/ \E enumContext \in HasherContexts : Constructor(1, enumContext)
    \/ \E input \in FreshInputs : Update(1, input)
    \/ GetBytes(1)
    \/ EncodeMultiple(1)

SpecFresh == Init /\ [][NextFresh]_vars

----------------------------------------------------------------------------
(* The pure functions: one call, with any value of the universes above.    *)

CallEncode ==
    /\ loaded = "strict"
    /\ ret = NoCall
    /\ \E input \in Values, enumContext \in Contexts :
           ret' = Call("encodeInputAsBytes", 0, <<input, enumContext>>,
                       encodeInputAsBytes(input, enumContext), <<>>)
    /\ UNCHANGED <<loaded, hashers, heap>>

CallEncodeIndex ==
    /\ loaded = "index"
    /\ ret = NoCall
    /\ \E input \in Values :
           ret' = Call("encodeInputAsBytes", 0, <<input>>,
                       encodeInputAsBytes_index(input), <<>>)
    /\ UNCHANGED <<loaded, hashers, heap>>

(* getEnumDiscriminant is private to src/index.ts: its one caller passes   *)
(* the sole key of an object, a key that starts with A-Z.                  *)
CallGetEnumDiscriminant ==
    /\ loaded = "index"
    /\ ret = NoCall
    /\ \E variantName \in VariantNames :
           /\ StartsUpper(variantName)
           /\ ret' = Call("getEnumDiscriminant", 0, <<Str(variantName)>>, Ok(<<>>),
                          getEnumDiscriminant(variantName))
    /\ UNCHANGED <<loaded, hashers, heap>>

NextPure == CallEncode \/ CallEncodeIndex \/ CallGetEnumDiscriminant

SpecPure == Init /\ [][NextPure]_vars

----------------------------------------------------------------------------
(* Properties.                                                             *)

BytesOf(h) == getBytes(heap[hashers[h].buffer])

(* The buffer of a new Hasher after update() of each input of log. *)
RECURSIVE Replay(_, _, _)
Replay(buffer, enumContext, log) ==
    IF log = <<>> THEN buffer
    ELSE Replay(update(buffer, Encode(Head(log), enumContext)), enumContext, Tail(log))

(* C1: a fresh Hasher (never reset, not a clone) that took v1..vn returns  *)
(* from getBytes() the bytes encodeMultipleInputs returns for v1..vn and   *)
(* the same enum context.                                                  *)
C1_AccumulatorEquivalence ==
    (ret.op = "encodeMultipleInputs" /\ hashers[ret.h].since = "new")
    => ret.res = Ok(BytesOf(ret.h))

(* C2: an update() that throws leaves every buffer, chunk for chunk, and   *)
(* every Hasher as it was.                                                 *)
C2_FailedUpdateIsAtomic ==
    [][(ret'.op = "update" /\ ~ret'.res.ok) => (heap' = heap /\ hashers' = hashers)]_vars

C2_Witness ==
    /\ ret.op = "update"
    /\ ~ret.res.ok
    /\ ret.res.err = "EnumVariantNotFound"
    /\ ret.res.name = sZed
    /\ ret.args[1] = Unencodable
    /\ hashers[ret.h].since \in {"clone", "reset"}
    /\ Len(heap[hashers[ret.h].buffer]) >= 1

(* C3: right after clone() the new Hasher has the bytes and the enum       *)
(* context of the one cloned, which keeps its bytes; an update() or a      *)
(* reset() on one Hasher leaves the bytes of every other Hasher unchanged. *)
C3_CloneIsolation ==
    [][/\ (ret'.op \in {"update", "reset"}) =>
              \A g \in Live(hashers) \ {ret'.h} :
                  getBytes(heap'[hashers'[g].buffer]) = BytesOf(g)
       /\ (ret'.op = "clone") =>
              /\ getBytes(heap'[hashers'[ret'.value].buffer]) = BytesOf(ret'.h)
              /\ getBytes(heap'[hashers'[ret'.h].buffer]) = BytesOf(ret'.h)
              /\ hashers'[ret'.value].enumContext = hashers[ret'.h].enumContext]_vars

C3_Witness ==
    \E a1, a2 \in Live(hashers) :
        /\ a1 # a2
        /\ hashers[a2].since = "clone"
        /\ ret.op = "update" /\ ret.res.ok /\ ret.h = a2
        /\ hashers[a1].log # <<>>
        /\ hashers[a2].log = Append(hashers[a1].log, ret.args[1])
        /\ BytesOf(a2) = BytesOf(a1) \o ret.res.bytes

(* C4: finalize()/digest() and getBytes() leave every buffer and Hasher as *)
(* it was and return the digest, the bytes, of the chunks pushed so far;   *)
(* an update() that follows appends to all of them.                        *)
C4_ReadingDoesNotConsume ==
    [][/\ (ret'.op \in {"finalize", "getBytes"}) =>
              /\ heap' = heap
              /\ hashers' = hashers
              /\ ret'.op = "finalize" => ret'.value = sha256(BytesOf(ret'.h))
              /\ ret'.op = "getBytes" => ret'.res = Ok(BytesOf(ret'.h))
       /\ (ret.op = "finalize" /\ ret'.op = "finalize" /\ ret'.h = ret.h) =>
              ret'.value = ret.value
       /\ (ret.op \in {"finalize", "getBytes"} /\ ret'.op = "update"
              /\ ret'.h = ret.h /\ ret'.res.ok) =>
              getBytes(heap'[hashers'[ret.h].buffer]) = BytesOf(ret.h) \o ret'.res.bytes]_vars

C4_Witness ==
    /\ ret.op = "finalize"
    /\ Len(heap[hashers[ret.h].buffer]) >= 2
    /\ ret.value = sha256(BytesOf(ret.h))
    /\ BytesOf(ret.h) # <<>>

(* C5: reset() empties the buffer and keeps the enum context; the bytes of *)
(* a Hasher that was reset are those of a new Hasher with the same context *)
(* that took the inputs appended since the reset.                          *)
C5_ResetIsFresh ==
    /\ [](\A h \in Live(hashers) :
             hashers[h].since = "reset" =>
                 BytesOf(h) = getBytes(Replay(<<>>, hashers[h].enumContext,
                                              hashers[h].log)))
    /\ [][(ret'.op = "reset") =>
              /\ getBytes(heap'[hashers'[ret'.h].buffer]) = <<>>
              /\ hashers'[ret'.h].enumContext = hashers[ret'.h].enumContext]_vars

C5_Witness ==
    /\ loaded = "strict"
    /\ ret.op = "update" /\ ret.res.ok /\ ret.args[1] = TaggedActivate
    /\ hashers[ret.h].since = "reset"
    /\ hashers[ret.h].enumContext = CtxKind
    /\ Len(hashers[ret.h].log) >= 2

(* The shape of a tagged union: one key, starting with A-Z. *)
IsTagged(input) == input.k = "object" /\ Len(input.keys) = 1 /\ StartsUpper(input.keys[1])

(* The position of the tag in the variant list of the first entry of the   *)
(* context, in enumeration order, that holds it.                           *)
Position(enumContext, tag) ==
    LET enumName == CHOOSE name \in {enumContext.keys[i] : i \in 1..Len(enumContext.keys)} :
                        /\ Includes(Get(enumContext, name), tag)
                        /\ \A i, j \in 1..Len(enumContext.keys) :
                               (ObjectKeys(enumContext)[j] = name /\ i < j)
                               => ~Includes(Get(enumContext, ObjectKeys(enumContext)[i]), tag)
    IN IndexOf(Get(enumContext, enumName), tag)

Resolves(enumContext, tag) ==
    /\ enumContext # Undefined
    /\ \E i \in 1..Len(enumContext.keys) : Includes(enumContext.items[i], tag)

(* C6: the context-taking encoder gives a tagged union one byte equal to   *)
(* the position of the tag in the first context entry holding it, then the *)
(* encoding of the inner value; with no context, or no entry holding the   *)
(* tag, it throws an error naming the tag.                                 *)
C6_StrictDiscriminant ==
    (ret.op = "encodeInputAsBytes" /\ loaded = "strict" /\ IsTagged(ret.args[1])) =>
        LET tag == ret.args[1].keys[1]
            inner == encodeInputAsBytes(ret.args[1].items[1], ret.args[2])
        IN IF Resolves(ret.args[2], tag)
           THEN inner.ok => ret.res = Ok(<<Position(ret.args[2], tag)>> \o inner.bytes)
           ELSE ~ret.res.ok /\ ret.res.name = tag /\ ret.res.bytes = <<>>

(* C7: the discriminant byte is the resolved discriminant, in 0..255, and  *)
(* encoding throws when the tag's position exceeds 255.                    *)
C7_DiscriminantRange ==
    (/\ ret.op = "encodeInputAsBytes" /\ loaded = "strict" /\ IsTagged(ret.args[1])
     /\ Resolves(ret.args[2], ret.args[1].keys[1])) =>
        LET position == Position(ret.args[2], ret.args[1].keys[1])
        IN IF position > 255 THEN ~ret.res.ok
           ELSE ret.res.ok => ret.res.bytes[1] = position

ElementsOf(input) == IF input.k = "array" THEN input.items ELSE Get(input, sElements).items

EncodeAll(values, enumContext) ==
    [i \in 1..Len(values) |->
        IF loaded = "strict" THEN encodeInputAsBytes(values[i], enumContext)
        ELSE encodeInputAsBytes_index(values[i])]

AllOk(rs) == \A i \in 1..Len(rs) : rs[i].ok

CallContext == IF loaded = "strict" THEN ret.args[2] ELSE Undefined

(* C8: an array of encodable values, and an object holding one under       *)
(* "elements", encodes to the encodings of the elements one after the      *)
(* other.                                                                  *)
C8_SequenceIsConcatenation ==
    (/\ ret.op = "encodeInputAsBytes"
     /\ (ret.args[1].k = "array" \/ HasElementsArray(ret.args[1]))
     /\ AllOk(EncodeAll(ElementsOf(ret.args[1]), CallContext))) =>
        ret.res = Ok(Flatten([i \in 1..Len(ElementsOf(ret.args[1])) |->
                        EncodeAll(ElementsOf(ret.args[1]), CallContext)[i].bytes]))

(* C9: an object that is neither a tagged union nor a wrapper of           *)
(* "elements" encodes to the encodings of its field values in the order    *)
(* the fields were inserted.                                               *)
C9_RecordInsertionOrder ==
    (/\ ret.op = "encodeInputAsBytes"
     /\ ret.args[1].k = "object"
     /\ ~IsTagged(ret.args[1])
     /\ ~HasElementsArray(ret.args[1])
     /\ AllOk(EncodeAll(ret.args[1].items, CallContext))) =>
        ret.res = Ok(Flatten([i \in 1..Len(ret.args[1].items) |->
                        EncodeAll(ret.args[1].items, CallContext)[i].bytes]))

(* C10: getEnumDiscriminant returns an integer in 0..255 for every variant *)
(* name it is called with, and the table's value for the names the table   *)
(* holds.                                                                  *)
C10_BestEffortDiscriminantInRange ==
    (ret.op = "getEnumDiscriminant") =>
        /\ ret.value \in 0..255
        /\ ret.args[1].s \in {sActivate, sEventual, sAddress} => ret.value = 0
        /\ ret.args[1].s \in {sSendFleet, sKnown, sContractId} => ret.value = 1

C10_Witness ==
    /\ ret.op = "getEnumDiscriminant"
    /\ RollingHash(0, ret.args[1].s) < 0
    /\ Len(ret.args[1].s) >= 7
    /\ ret.value \in 0..255

====
